---- MODULE Spec2Model ----
(***************************************************************************)
(* Model of src/key.rs: get_derived_key (validation of the caller's        *)
(* arguments, the request to the SEV firmware, the write of the derived    *)
(* key to key_path) and read_key.                                          *)
(*                                                                         *)
(* Strings are sequences of one-character strings, so that matching,       *)
(* letter case and base-2 parsing are computed character by character.     *)
(* A u64 is a sequence of bits, most significant first, without leading    *)
(* zeros (<<>> is 0), so that the 64-bit overflow of the parse is exact.   *)
(***************************************************************************)
EXTENDS Integers, Sequences, FiniteSets, TLC

VARIABLES
    pc,               \* position of the process: "idle", a step of get_derived_key, "done"
    args,             \* KeyArgs of the running invocation
    root_key_select,  \* local of get_derived_key (line 38)
    vmpl,             \* local of get_derived_key (line 44)
    gfs,              \* local of get_derived_key (line 55)
    request,          \* the DerivedKey request built on line 71
    sev_fw,           \* TRUE while the firmware handle of line 72 is open
    sent,             \* the request handed to the firmware on line 74
    fw_reply,         \* what the firmware answered: "none", "rejected", "key"
    derived_key,      \* the [u8; 32] of line 73
    fs,               \* the file system: path -> file
    fs0,              \* the file system when the invocation started
    trace,            \* the fallible steps attempted by the invocation, in order
    result,           \* how the last invocation ended
    loaded            \* what the last read_key returned

vars == << pc, args, root_key_select, vmpl, gfs, request, sev_fw, sent, fw_reply,
           derived_key, fs, fs0, trace, result, loaded >>

---------------------------------------------------------------------------
(* Bounds of the model *)

MaxVmpl == 4       \* supplied privilege levels range over 0..MaxVmpl
MaxShort == 1      \* every string over GfsAlphabet up to this length is an input
MaxPartial == 1    \* a failing write stops after 0..MaxPartial bytes
NumKeys == 2       \* distinct keys the firmware may return
ReadChunk == 8     \* bytes one read call of read_to_end returns at most

(* Program constants *)

KeyLen == 32           \* [u8; 32]
U64Bits == 64          \* u64
MaxLevel == 3          \* level <= 3
DefaultVmpl == 1       \* None => 1
MaxFieldMask == 63     \* value <= 63
DefaultGfs == 0        \* None => 0
Radix == 2             \* from_str_radix(.., 2)

---------------------------------------------------------------------------
(* Option<T> *)

Some(x) == [some |-> TRUE, v |-> x]
NoneInt == [some |-> FALSE, v |-> 0]
NoneStr == [some |-> FALSE, v |-> <<>>]

unwrap_or(opt, default) == IF opt.some THEN opt.v ELSE default

Rep(c, n) == [i \in 1..n |-> c]

(* How an invocation ends: Ok, one of the anyhow errors of the code, or the
   panic of the unwrap on line 57. *)
Ok == "Ok"
Panic == "panic: unwrap on an Err value"
ErrRootKey == "Invalid input. Enter either vcek or vmrk"
ErrVmpl == "Invalid Virtual Machine Privilege Level."
ErrGfs == "Invalid Guest Field Select option."
ErrFirmwareOpen == "failed to open SEV firmware device."
ErrDerive == "Failed to request derived key"
ErrOverwrite == "Unable to overwrite derived key file contents"
ErrCreate == "Unable to create derived key file contents"
ErrSerialize == "Could not serialize derived key into file."
Running == "running"

---------------------------------------------------------------------------
(* Root key selection, lines 38-42: an exact match on the string. *)

vcek == <<"v", "c", "e", "k">>
vmrk == <<"v", "m", "r", "k">>

SelectRootKey(s) ==
    IF s = vcek THEN [ok |-> TRUE, v |-> FALSE]
    ELSE IF s = vmrk THEN [ok |-> TRUE, v |-> TRUE]
    ELSE [ok |-> FALSE, v |-> FALSE]

(* Privilege level, lines 44-53. *)

ValidateVmplOffByOne(opt) ==
    IF opt.some
    THEN IF opt.v < MaxLevel THEN [ok |-> TRUE, v |-> opt.v] ELSE [ok |-> FALSE, v |-> 0]
    ELSE [ok |-> TRUE, v |-> DefaultVmpl]

ValidateVmpl(opt) ==
    IF opt.some
    THEN IF opt.v <= MaxLevel THEN [ok |-> TRUE, v |-> opt.v] ELSE [ok |-> FALSE, v |-> 0]
    ELSE [ok |-> TRUE, v |-> DefaultVmpl]

---------------------------------------------------------------------------
(* u64 values as bit sequences. *)

RECURSIVE BitsToNat(_)
BitsToNat(v) == IF v = <<>> THEN 0 ELSE Radix * BitsToNat(SubSeq(v, 1, Len(v) - 1)) + v[Len(v)]

(* v <= n for a small n (n < 2^30): a value of more than 30 bits is larger. *)
U64Leq(v, n) == IF Len(v) > 30 THEN FALSE ELSE BitsToNat(v) <= n

(* char::to_digit(2) *)
to_digit(c) == IF c = "0" THEN Some(0) ELSE IF c = "1" THEN Some(1) ELSE NoneInt

(* The index of the first character that is no digit of the radix, 0 if
   there is none. *)
FirstInvalid(digits) ==
    IF \E i \in 1..Len(digits) : ~to_digit(digits[i]).some
    THEN CHOOSE i \in 1..Len(digits) :
             /\ ~to_digit(digits[i]).some
             /\ \A j \in 1..(i - 1) : to_digit(digits[j]).some
    ELSE 0

(* The number of "0" characters the string starts with: while only they
   have been read the running value is 0. *)
LeadingZeros(digits) ==
    CHOOSE z \in 0..Len(digits) :
        /\ \A j \in 1..z : digits[j] = "0"
        /\ z = Len(digits) \/ digits[z + 1] # "0"

(* The digit loop of u64::from_str_radix: for each character, in order, the
   running value is multiplied by the radix (checked), the character is
   converted (an invalid digit is reported before the overflow of the same
   round) and the digit is added (checked). After i valid digits, z of them
   leading zeros, the running value is the i - z digits that follow the
   zeros, so the multiplication overflows in the round that would give the
   value more than U64Bits bits. *)
ParseDigits(digits) ==
    LET z == LeadingZeros(digits)
        bad == FirstInvalid(digits)
        ovf == IF Len(digits) - z > U64Bits THEN z + U64Bits + 1 ELSE 0
    IN  IF bad # 0 /\ (ovf = 0 \/ bad <= ovf)
        THEN [ok |-> FALSE, v |-> <<>>, kind |-> "InvalidDigit"]
        ELSE IF ovf # 0
        THEN [ok |-> FALSE, v |-> <<>>, kind |-> "PosOverflow"]
        ELSE [ok |-> TRUE, kind |-> "none",
              v |-> [i \in 1..(Len(digits) - z) |-> to_digit(digits[z + i]).v]]

(* u64::from_str_radix(src, 2), line 57: the empty string is an error, one
   leading "+" is skipped (a lone sign is an error), "-" is no digit. *)
from_str_radix(src) ==
    IF src = <<>> THEN [ok |-> FALSE, v |-> <<>>, kind |-> "Empty"]
    ELSE IF Len(src) = 1 /\ Head(src) \in {"+", "-"}
         THEN [ok |-> FALSE, v |-> <<>>, kind |-> "InvalidDigit"]
    ELSE IF Head(src) = "+" THEN ParseDigits(Tail(src))
    ELSE ParseDigits(src)

(* Guest field select, lines 55-65: "ok" with the mask, "err" for the
   returned error, "panic" for the unwrap of a parse error. *)
ParseGfs(opt) ==
    IF opt.some
    THEN LET parsed == from_str_radix(opt.v)
         IN  IF ~parsed.ok THEN [how |-> "panic", v |-> 0]
             ELSE IF U64Leq(parsed.v, MaxFieldMask)
                  THEN [how |-> "ok", v |-> BitsToNat(parsed.v)]
                  ELSE [how |-> "err", v |-> 0]
    ELSE [how |-> "ok", v |-> DefaultGfs]

---------------------------------------------------------------------------
(* DerivedKey::new(root_key_select, GuestFieldSelect(gfs), vmpl, gsvn, tcbv),
   line 71. *)

NoRequest == [root_key_select |-> FALSE, guest_field_select |-> 0, vmpl |-> 0,
              guest_svn |-> 0, tcb_version |-> 0]

DerivedKeyNewSwapped(rks, g, level, gsvn, tcbv) ==
    [root_key_select |-> rks, guest_field_select |-> g, vmpl |-> gsvn,
     guest_svn |-> level, tcb_version |-> tcbv]

DerivedKeyNew(rks, g, level, gsvn, tcbv) ==
    [root_key_select |-> rks, guest_field_select |-> g, vmpl |-> level,
     guest_svn |-> gsvn, tcb_version |-> tcbv]

---------------------------------------------------------------------------
(* bincode::serialize_into(&mut key_file, &derived_key), lines 91-92: a
   fixed-size array is serialized as a tuple, element after element, each
   u8 as one byte; no length is written. *)

serialize_u8(b) == <<b % 256>>

(* Each element contributes its one byte, in order. *)
serialize_elements(a) == [i \in 1..Len(a) |-> serialize_u8(a[i])[1]]

(* n as k little-endian bytes: how bincode writes the u64 length of a
   slice or Vec. *)
RECURSIVE le_bytes(_, _)
le_bytes(n, k) == IF k = 0 THEN <<>> ELSE <<n % 256>> \o le_bytes(n \div 256, k - 1)

(* The encoding of a slice (&derived_key[..]): the length, then the elements. *)
serialize_slice(a) == le_bytes(Len(a), 8) \o serialize_elements(a)

serialize(a) == serialize_elements(a)

---------------------------------------------------------------------------
(* Files. A file is [exists, bytes]; the writer of lines 81-89 starts at
   offset 0. *)

Paths == {"derived_key.bin"}

NoFile == [exists |-> FALSE, bytes |-> <<>>]

(* OpenOptions::new().write(true).open(..): the content is kept. *)
OpenNoTruncate(file) == [exists |-> TRUE, bytes |-> file.bytes]

(* OpenOptions::new().write(true).truncate(true).open(..), lines 82-85. *)
OpenTruncate(file) == [exists |-> TRUE, bytes |-> <<>>]

(* fs::File::create(..), line 88: creates the file, or truncates it. *)
FileCreate(file) == [exists |-> TRUE, bytes |-> <<>>]

(* The bytes written from offset 0 replace what was there; what lies beyond
   them stays. *)
WriteFromStart(file, data) ==
    [exists |-> TRUE,
     bytes |-> data \o SubSeq(file.bytes, Len(data) + 1, Len(file.bytes))]

Min(a, b) == IF a <= b THEN a ELSE b

(* One read call: at most ReadChunk bytes from the start of the file. *)
ReadOnce(bytes) == SubSeq(bytes, 1, Min(ReadChunk, Len(bytes)))

RECURSIVE ReadLoop(_, _, _)
ReadLoop(bytes, pos, buf) ==
    IF pos > Len(bytes) THEN buf
    ELSE LET n == Min(ReadChunk, Len(bytes) - pos + 1)
         IN  ReadLoop(bytes, pos + n, buf \o SubSeq(bytes, pos, pos + n - 1))

(* key_file.read_to_end(&mut key), line 101: reads until end of file. *)
ReadToEnd(bytes) == ReadLoop(bytes, 1, <<>>)

NotLoaded == [state |-> "none", bytes |-> <<>>]

---------------------------------------------------------------------------
(* Inputs *)

RootKeyInputs ==
    { vcek, vmrk, <<"V", "C", "E", "K">>, <<"V", "m", "r", "k">>,
      <<"v", "c", "e", "k", "x">> }

VmplInputs == {NoneInt} \cup {Some(n) : n \in 0..MaxVmpl}

GfsAlphabet == {"0", "1", "x", "+"}

GfsStrings ==
    [1..6 -> {"0", "1"}]
    \cup UNION {[1..n -> GfsAlphabet] : n \in 0..MaxShort}
    \cup { <<"1", "0", "0", "0", "0", "0", "0">>,
           <<"1", "0", "x", "0", "1", "1">>,
           <<"+", "1", "1">>,
           Rep("0", U64Bits - 1) \o <<"1", "1">>,
           Rep("1", U64Bits),
           <<"1">> \o Rep("0", U64Bits) }

GfsInputs == {NoneStr} \cup {Some(s) : s \in GfsStrings}

GsvnInputs == {NoneInt, Some(5)}

TcbvInputs == {NoneInt, Some(100)}

NoArgs == [key_path |-> "", root_key_select |-> <<>>, vmpl |-> NoneInt, gfs |-> NoneStr,
           gsvn |-> NoneInt, tcbv |-> NoneInt]

(* The keys the firmware may return. *)
Key(k) == [i \in 1..KeyLen |-> (37 * k + i) % 256]
Keys == {Key(k) : k \in 1..NumKeys}

(* A file left at key_path by something else, longer than a key. *)
OldFile == [exists |-> TRUE, bytes |-> Rep(170, KeyLen + 8)]

---------------------------------------------------------------------------
Init ==
    /\ pc = "idle"
    /\ args = NoArgs
    /\ root_key_select = FALSE
    /\ vmpl = 0
    /\ gfs = 0
    /\ request = NoRequest
    /\ sev_fw = FALSE
    /\ sent = [some |-> FALSE, v |-> NoRequest]
    /\ fw_reply = "none"
    /\ derived_key = <<>>
    /\ fs \in [Paths -> {NoFile, OldFile}]
    /\ fs0 = fs
    /\ trace = <<>>
    /\ result = "none"
    /\ loaded = NotLoaded

(* The invocation ends with outcome r: the firmware handle goes out of scope. *)
Finish(r) ==
    /\ pc' = "done"
    /\ result' = r
    /\ sev_fw' = FALSE

(* get_derived_key(args) is called, line 37. *)
Call ==
    /\ pc = "idle"
    /\ \E p \in Paths, rk \in RootKeyInputs, l \in VmplInputs, g \in GfsInputs,
          s \in GsvnInputs, t \in TcbvInputs :
          args' = [key_path |-> p, root_key_select |-> rk, vmpl |-> l, gfs |-> g,
                   gsvn |-> s, tcbv |-> t]
    /\ pc' = "select_root_key"
    /\ root_key_select' = FALSE
    /\ vmpl' = 0
    /\ gfs' = 0
    /\ request' = NoRequest
    /\ sent' = [some |-> FALSE, v |-> NoRequest]
    /\ fw_reply' = "none"
    /\ derived_key' = <<>>
    /\ fs0' = fs
    /\ trace' = <<>>
    /\ result' = Running
    /\ loaded' = NotLoaded
    /\ UNCHANGED << sev_fw, fs >>

(* Lines 38-42. *)
StepSelectRootKey ==
    /\ pc = "select_root_key"
    /\ trace' = Append(trace, "select_root_key")
    /\ LET r == SelectRootKey(args.root_key_select)
       IN  IF r.ok
           THEN /\ root_key_select' = r.v
                /\ pc' = "validate_vmpl"
                /\ UNCHANGED << result, sev_fw >>
           ELSE /\ Finish(ErrRootKey)
                /\ UNCHANGED root_key_select
    /\ UNCHANGED << args, vmpl, gfs, request, sent, fw_reply, derived_key, fs, fs0, loaded >>

(* Lines 44-53. *)
StepValidateVmpl ==
    /\ pc = "validate_vmpl"
    /\ trace' = Append(trace, "validate_vmpl")
    /\ LET r == ValidateVmpl(args.vmpl)
       IN  IF r.ok
           THEN /\ vmpl' = r.v
                /\ pc' = "parse_gfs"
                /\ UNCHANGED << result, sev_fw >>
           ELSE /\ Finish(ErrVmpl)
                /\ UNCHANGED vmpl
    /\ UNCHANGED << args, root_key_select, gfs, request, sent, fw_reply, derived_key, fs,
                    fs0, loaded >>

(* Lines 55-65. *)
StepParseGfs ==
    /\ pc = "parse_gfs"
    /\ trace' = Append(trace, "parse_gfs")
    /\ LET r == ParseGfs(args.gfs)
       IN  CASE r.how = "ok" ->
                  /\ gfs' = r.v
                  /\ pc' = "build_request"
                  /\ UNCHANGED << result, sev_fw >>
             [] r.how = "err" ->
                  /\ Finish(ErrGfs)
                  /\ UNCHANGED gfs
             [] r.how = "panic" ->
                  /\ Finish(Panic)
                  /\ UNCHANGED gfs
    /\ UNCHANGED << args, root_key_select, vmpl, request, sent, fw_reply, derived_key, fs,
                    fs0, loaded >>

(* Lines 67-71: the defaults of gsvn and tcbv, and the request. *)
StepBuildRequest ==
    /\ pc = "build_request"
    /\ request' = DerivedKeyNew(root_key_select, gfs, vmpl,
                                unwrap_or(args.gsvn, 0), unwrap_or(args.tcbv, 0))
    /\ pc' = "firmware_open"
    /\ UNCHANGED << args, root_key_select, vmpl, gfs, sev_fw, sent, fw_reply, derived_key,
                    fs, fs0, trace, result, loaded >>

(* Line 72: Firmware::open() succeeds or fails. *)
StepFirmwareOpen ==
    /\ pc = "firmware_open"
    /\ trace' = Append(trace, "firmware_open")
    /\ \/ /\ sev_fw' = TRUE
          /\ pc' = "get_derived_key"
          /\ UNCHANGED result
       \/ Finish(ErrFirmwareOpen)
    /\ UNCHANGED << args, root_key_select, vmpl, gfs, request, sent, fw_reply, derived_key,
                    fs, fs0, loaded >>

(* Lines 73-75: the firmware returns a key or rejects the request. *)
StepGetDerivedKey ==
    /\ pc = "get_derived_key"
    /\ sev_fw
    /\ trace' = Append(trace, "get_derived_key")
    /\ sent' = Some(request)
    /\ \/ \E k \in Keys :
             /\ derived_key' = k
             /\ fw_reply' = "key"
             /\ pc' = "open_key_file"
             /\ UNCHANGED << result, sev_fw >>
       \/ /\ fw_reply' = "rejected"
          /\ Finish(ErrDerive)
          /\ UNCHANGED derived_key
    /\ UNCHANGED << args, root_key_select, vmpl, gfs, request, fs, fs0, loaded >>

(* Lines 81-89: an existing file is opened for writing and truncated, a
   missing one is created; either may fail. *)
StepOpenKeyFile ==
    /\ pc = "open_key_file"
    /\ trace' = Append(trace, "open_key_file")
    /\ LET p == args.key_path
       IN  IF fs[p].exists
           THEN \/ /\ fs' = [fs EXCEPT ![p] = OpenTruncate(fs[p])]
                   /\ pc' = "serialize_into"
                   /\ UNCHANGED << result, sev_fw >>
                \/ /\ Finish(ErrOverwrite)
                   /\ UNCHANGED fs
           ELSE \/ /\ fs' = [fs EXCEPT ![p] = FileCreate(fs[p])]
                   /\ pc' = "serialize_into"
                   /\ UNCHANGED << result, sev_fw >>
                \/ /\ Finish(ErrCreate)
                   /\ UNCHANGED fs
    /\ UNCHANGED << args, root_key_select, vmpl, gfs, request, sent, fw_reply, derived_key,
                    fs0, loaded >>

(* Lines 91-94: the encoding is written to the file byte after byte; the
   write completes, or fails after some of the bytes. *)
StepSerializeInto ==
    /\ pc = "serialize_into"
    /\ trace' = Append(trace, "serialize_into")
    /\ LET p == args.key_path
           data == serialize(derived_key)
       IN  \/ /\ fs' = [fs EXCEPT ![p] = WriteFromStart(fs[p], data)]
              /\ Finish(Ok)
           \/ \E n \in 0..Min(MaxPartial, Len(data) - 1) :
                 /\ fs' = [fs EXCEPT ![p] = WriteFromStart(fs[p], SubSeq(data, 1, n))]
                 /\ Finish(ErrSerialize)
    /\ UNCHANGED << args, root_key_select, vmpl, gfs, request, sent, fw_reply, derived_key,
                    fs0, loaded >>

(* get_derived_key has returned (or panicked): args and the locals are dropped. *)
Return ==
    /\ pc = "done"
    /\ pc' = "idle"
    /\ args' = NoArgs
    /\ root_key_select' = FALSE
    /\ vmpl' = 0
    /\ gfs' = 0
    /\ request' = NoRequest
    /\ sent' = [some |-> FALSE, v |-> NoRequest]
    /\ fw_reply' = "none"
    /\ trace' = <<>>
    /\ fs0' = fs
    /\ UNCHANGED << sev_fw, derived_key, fs, result, loaded >>

(* read_key(key_path), lines 97-103. *)
ReadKey ==
    /\ pc = "idle"
    /\ \E p \in Paths :
          IF fs[p].exists
          THEN \/ loaded' = [state |-> "ok", bytes |-> ReadToEnd(fs[p].bytes)]
               \/ loaded' = [state |-> "err", bytes |-> <<>>]
          ELSE loaded' = [state |-> "err", bytes |-> <<>>]
    /\ UNCHANGED << pc, args, root_key_select, vmpl, gfs, request, sev_fw, sent, fw_reply,
                    derived_key, fs, fs0, trace, result >>

Next ==
    \/ Call
    \/ StepSelectRootKey
    \/ StepValidateVmpl
    \/ StepParseGfs
    \/ StepBuildRequest
    \/ StepFirmwareOpen
    \/ StepGetDerivedKey
    \/ StepOpenKeyFile
    \/ StepSerializeInto
    \/ Return
    \/ ReadKey

Spec == Init /\ [][Next]_vars

---------------------------------------------------------------------------
(* Notions the properties are stated with, independent of the parse above. *)

Attempted(step) == \E i \in 1..Len(trace) : trace[i] = step

KeyFile == fs[args.key_path]

ToLowerChar(c) ==
    CASE c = "V" -> "v" [] c = "C" -> "c" [] c = "E" -> "e" [] c = "K" -> "k"
      [] c = "M" -> "m" [] c = "R" -> "r" [] OTHER -> c

ToLower(s) == [i \in 1..Len(s) |-> ToLowerChar(s[i])]

IsBinary(s) == \A i \in 1..Len(s) : s[i] \in {"0", "1"}

(* A binary string has a 1 at a digit of weight 2^n or more. *)
HasBitFrom(s, n) == \E i \in 1..(Len(s) - n) : s[i] = "1"

(* A base-2 numeral that fits the 64-bit integer type. *)
WellFormedBinary(s) == s # <<>> /\ IsBinary(s) /\ ~HasBitFrom(s, 64)

(* The base-2 value of a binary string exceeds 63. *)
Exceeds63(s) == HasBitFrom(s, 6)

RECURSIVE Pow2(_)
Pow2(n) == IF n = 0 THEN 1 ELSE 2 * Pow2(n - 1)

RECURSIVE WeightedSum(_, _)
WeightedSum(s, i) ==
    IF i > Len(s) THEN 0
    ELSE (IF s[i] = "1" THEN Pow2(Len(s) - i) ELSE 0) + WeightedSum(s, i + 1)

(* The base-2 value of a binary string that does not exceed 63, the
   rightmost character being bit 0: the weighted sum of its last six digits. *)
Base2Value(s) == WeightedSum(s, IF Len(s) > 6 THEN Len(s) - 5 ELSE 1)

StepOrder ==
    << "select_root_key", "validate_vmpl", "parse_gfs", "firmware_open",
       "get_derived_key", "open_key_file", "serialize_into" >>

IsPrefix(s, t) == Len(s) <= Len(t) /\ \A i \in 1..Len(s) : s[i] = t[i]

ErrorsOf(step) ==
    CASE step = "select_root_key" -> {ErrRootKey}
      [] step = "validate_vmpl" -> {ErrVmpl}
      [] step = "parse_gfs" -> {ErrGfs}
      [] step = "firmware_open" -> {ErrFirmwareOpen}
      [] step = "get_derived_key" -> {ErrDerive}
      [] step = "open_key_file" -> {ErrOverwrite, ErrCreate}
      [] step = "serialize_into" -> {ErrSerialize}
      [] OTHER -> {}

---------------------------------------------------------------------------
(* C1: root-key selection is case-insensitive: a selector is accepted
   (mapped to VCEK or VMRK) exactly when it equals "vcek" or "vmrk" ignoring
   letter case, and every other selector fails with the invalid-root-key
   error. *)
C1_CaseInsensitiveRootKey ==
    pc = "done" =>
        LET low == ToLower(args.root_key_select)
        IN  /\ (low \in {vcek, vmrk}) <=> (result # ErrRootKey)
            /\ (result # ErrRootKey) => (root_key_select = (low = vmrk))

(* C2: a guest-field-select string that is present and is no well-formed
   base-2 numeral makes get_derived_key return the invalid-field-mask error
   (no panic), before the firmware is opened. *)
C2_MalformedGfsReturnsError ==
    (pc = "done" /\ Attempted("parse_gfs") /\ args.gfs.some
        /\ ~WellFormedBinary(args.gfs.v))
    => (result = ErrGfs /\ ~Attempted("firmware_open"))

(* C3: for a string of the characters 0 and 1 the mask of the request is the
   string's base-2 value when that is <= 63, and the invocation fails with
   the invalid-field-mask error when the value exceeds 63; an absent option
   gives the mask 0. *)
C3_FieldMaskParsing ==
    (pc = "done" /\ Attempted("parse_gfs")) =>
        /\ ~args.gfs.some =>
              (Attempted("firmware_open") /\ request.guest_field_select = 0)
        /\ (args.gfs.some /\ args.gfs.v # <<>> /\ IsBinary(args.gfs.v)) =>
              IF Exceeds63(args.gfs.v)
              THEN result = ErrGfs
              ELSE /\ Attempted("firmware_open")
                   /\ request.guest_field_select = Base2Value(args.gfs.v)

(* C4: once the privilege level has been validated: a supplied level above 3
   has ended the invocation with the privilege-level error and nothing was
   sent to the firmware; a supplied level of 0..3 is used unchanged, in the
   local and in the request sent; an absent level is 1. *)
C4_PrivilegeLevel ==
    Attempted("validate_vmpl") =>
        /\ (args.vmpl.some /\ args.vmpl.v > 3) =>
              (pc = "done" /\ result = ErrVmpl /\ ~sent.some)
        /\ (args.vmpl.some /\ args.vmpl.v <= 3) =>
              (result # ErrVmpl /\ vmpl = args.vmpl.v
                 /\ (sent.some => sent.v.vmpl = args.vmpl.v))
        /\ ~args.vmpl.some =>
              (result # ErrVmpl /\ vmpl = 1 /\ (sent.some => sent.v.vmpl = 1))

(* The level 3 was supplied and reached the firmware in the request. *)
C4_Witness ==
    /\ sent.some
    /\ args.vmpl = Some(3)
    /\ sent.v.vmpl = 3

(* C5, as stated: after a successful get_derived_key the key file is 40
   bytes, the 8-byte little-endian length 32 followed by the 32 key bytes. *)
C5_LengthPrefixedFile ==
    (pc = "done" /\ result = Ok) =>
        /\ Len(KeyFile.bytes) = 40
        /\ KeyFile.bytes = le_bytes(32, 8) \o derived_key

(* C5, amended: after a successful get_derived_key the key file exists and
   its entire content is exactly the 32 key bytes returned by the firmware,
   in order, with no length field. *)
C5_RawKeyFile ==
    (pc = "done" /\ result = Ok) =>
        /\ KeyFile.exists
        /\ Len(KeyFile.bytes) = 32
        /\ \A i \in 1..32 : KeyFile.bytes[i] = derived_key[i]

(* A successful invocation created the key file, which was not there. *)
C5_Witness ==
    /\ pc = "done"
    /\ result = Ok
    /\ ~fs0[args.key_path].exists
    /\ derived_key \in Keys
    /\ KeyFile.bytes = derived_key

(* C6: round trip: read_key after a successful get_derived_key on the same
   path returns exactly the 32 bytes of the key the firmware returned. *)
C6_RoundTrip ==
    (pc = "idle" /\ result = Ok /\ loaded.state = "ok") =>
        /\ Len(loaded.bytes) = 32
        /\ loaded.bytes = derived_key

(* read_key has returned the bytes of a key persisted just before. *)
C6_Witness ==
    /\ pc = "idle"
    /\ result = Ok
    /\ loaded.state = "ok"
    /\ derived_key \in Keys
    /\ loaded.bytes = derived_key

(* C7: overwrite, not append: after a successful persist, whatever the file
   held before (nothing, longer or shorter content, an earlier key), the
   file is the encoding of the key just persisted and nothing else. *)
C7_OverwriteNotAppend ==
    (pc = "done" /\ result = Ok) =>
        /\ Len(KeyFile.bytes) = Len(serialize(derived_key))
        /\ KeyFile = [exists |-> TRUE, bytes |-> serialize(derived_key)]

(* A second key was persisted over the encoding of a different first key. *)
C7_Witness ==
    /\ pc = "done"
    /\ result = Ok
    /\ fs0[args.key_path].exists
    /\ \E k \in Keys : k # derived_key /\ fs0[args.key_path].bytes = serialize(k)
    /\ KeyFile.bytes = serialize(derived_key)

(* C8: no partial success: an invocation ends either with Ok and the
   complete encoding of the derived key in the file, or with a failure and
   the file system as it was before the call. *)
C8_NoPartialSuccess ==
    pc = "done" =>
        \/ /\ result = Ok
           /\ KeyFile = [exists |-> TRUE, bytes |-> serialize(derived_key)]
        \/ /\ result # Ok
           /\ fs = fs0

(* The mask the request carries for a guest-field-select option that passed
   validation. *)
ExpectedMask(opt) ==
    IF ~opt.some THEN 0
    ELSE IF Head(opt.v) = "+" THEN Base2Value(Tail(opt.v))
    ELSE Base2Value(opt.v)

(* C9: the request handed to the firmware carries the selected root key, the
   parsed field mask, the validated privilege level, and the caller's
   guest_svn and tcb_version unchanged (0 when absent); (vcek, vmpl 2,
   "000011", gsvn 5, tcbv 100) yields (VCEK, 2, 3, 5, 100); a rejection by the
   firmware ends the invocation with the derivation error. *)
C9_RequestComposition ==
    /\ sent.some =>
          sent.v = [root_key_select |-> (args.root_key_select = vmrk),
                    guest_field_select |-> ExpectedMask(args.gfs),
                    vmpl |-> IF args.vmpl.some THEN args.vmpl.v ELSE 1,
                    guest_svn |-> IF args.gsvn.some THEN args.gsvn.v ELSE 0,
                    tcb_version |-> IF args.tcbv.some THEN args.tcbv.v ELSE 0]
    /\ ( /\ sent.some
         /\ args.root_key_select = vcek
         /\ args.vmpl = Some(2)
         /\ args.gfs = Some(<<"0", "0", "0", "0", "1", "1">>)
         /\ args.gsvn = Some(5)
         /\ args.tcbv = Some(100) ) =>
          sent.v = [root_key_select |-> FALSE, guest_field_select |-> 3, vmpl |-> 2,
                    guest_svn |-> 5, tcb_version |-> 100]
    /\ fw_reply = "rejected" => (pc = "done" /\ result = ErrDerive)

(* The request of the example was handed to the firmware. *)
C9_Witness ==
    /\ sent.some
    /\ args.root_key_select = vcek
    /\ args.vmpl = Some(2)
    /\ args.gfs = Some(<<"0", "0", "0", "0", "1", "1">>)
    /\ args.gsvn = Some(5)
    /\ args.tcbv = Some(100)
    /\ sent.v.guest_field_select = 3

(* C10: the steps are attempted in the order root key, privilege level,
   field mask, open firmware, derive key, open/create file, write file, each
   at most once and only after every earlier one succeeded; the invocation
   ends with Ok after all of them or with the error of the first failing
   step; the file is not touched unless the firmware returned a key. *)
C10_StepOrder ==
    /\ IsPrefix(trace, StepOrder)
    /\ fw_reply # "key" => fs = fs0
    /\ pc = "done" =>
          IF result = Ok THEN trace = StepOrder
          ELSE trace # <<>> /\ result \in ErrorsOf(trace[Len(trace)])

====
